---- MODULE Spec2Model ----
(***************************************************************************)
(* Model of src/main.cpp: the strum trigger, the capture buffer and the    *)
(* two operating modes (data logging, NanoEdge AI learn-then-classify).    *)
(*                                                                         *)
(* The program is one sequential poll loop; pc is its position.  A float   *)
(* is modelled exactly, as a fraction <<numerator, denominator>> with a    *)
(* positive denominator, so that the conversions and comparisons of the    *)
(* code (raw / 1000, sum / MINI, abs, > NOISE, > ref * THRESH) are         *)
(* computed as the code computes them, without rounding.                   *)
(***************************************************************************)
EXTENDS Integers, Sequences, FiniteSets

(* ------------------------------ constants ------------------------------ *)

AXIS_NUMBER == 3
MINI == 5
LEARNING_NUMBER == 5
THRESH_SIMILARITY == 90
THRESH == <<14, 10>>
NOISE == <<15, 100>>

\* Capture length in samples.  The program uses 1024; the model scales it
\* down so that the buffer contents can be enumerated.
DATA_INPUT_USER == 2

UINT16 == 65536

(* ------------------------------ fractions ------------------------------ *)

FZero == <<0, 1>>

FAdd(a, b) ==
    IF a[2] = b[2] THEN <<a[1] + b[1], a[2]>>
    ELSE <<a[1] * b[2] + b[1] * a[2], a[2] * b[2]>>

FDivInt(a, n) == <<a[1], a[2] * n>>

FMul(a, b) == <<a[1] * b[1], a[2] * b[2]>>

\* abs of a float (the floating-point overload)
FAbs(a) == <<IF a[1] < 0 THEN -a[1] ELSE a[1], a[2]>>

FGt(a, b) == a[1] * b[2] > b[1] * a[2]

(* ------------------------------- sensor -------------------------------- *)

\* Raw triples (x, y, z) the accelerometer may deliver, in sensor units.
\* A run is played against one of these sets.
SensorSets ==
    { { <<100, -100, 100>>, <<200, -200, 200>>, <<400, -400, 400>> },
      { <<100, -100, 100>>, <<200, -200, 200>>, <<400, -200, 200>> },
      { <<0, -300, 300>>, <<200, 0, 200>>, <<300, -200, 0>>, <<300, -300, 300>> } }

\* The sensor of the runs checked for progress: after every reading some
\* other reading is fresh on all axes, and two others are stale on some.
LiveSensorSets ==
    { { <<50, -50, 50>>, <<600, -600, 600>>,
        <<600, -50, 50>>, <<50, -600, 600>> } }

\* Similarity scores the engine's detect operation may return.
SimilarityScores == {89, 90}

Axes == 1..AXIS_NUMBER

BufferIndex == 0..(AXIS_NUMBER * DATA_INPUT_USER - 1)

VARIABLES
    mode,             \* compiler flag: "DATA_LOGGING" or "NEAI_LIB"
    sensor,           \* the raw triples the sensor delivers in this run
    pc,               \* position of the poll loop
    loop,             \* the loop of the mode being executed
    raw_values,       \* int32_t raw_values[AXIS_NUMBER]
    last_raw_values,  \* int32_t last_raw_values[AXIS_NUMBER]
    values,           \* float values[AXIS_NUMBER]
    data_user,        \* float data_user[AXIS_NUMBER * DATA_INPUT_USER]
    i,                \* loop counter of the for loop being executed
    ref_sum,          \* ref_sum_x, ref_sum_y, ref_sum_z
    new_sum,          \* new_sum_x, new_sum_y, new_sum_z
    ret,              \* value returned by the last strum_trigger call
    learn_cpt,        \* uint16_t learn_cpt
    similarity,       \* uint16_t similarity
    out,              \* output event of the last step (serial, LED, engine)
    \* history variables, read by the properties only
    last_accepted,    \* raw triple accepted by the previous get_values
    drawn,            \* readings accepted since the current call began
    drawn_sum,        \* per-axis sum of the raw readings counted by drawn
    ref_n,            \* samples added to the reference sums in this call
    new_n,            \* samples added to the candidate sums in this call
    fresh,            \* buffer slots written since the last true trigger
    captured,         \* raw readings accepted by the current or last fill
    writes,           \* slot writes made by the current or last fill
    line,             \* values printed on the log line of that fill
    lines,            \* log lines ended since that fill began
    progress,         \* learning-progress values printed so far
    learn_trigs,      \* true triggers seen by the learning loop (counted
                      \* up to LEARNING_NUMBER + 1)
    learn_calls,      \* number of NanoEdgeAI_learn calls
    detect_called,    \* TRUE once NanoEdgeAI_detect has been called
    over_count,       \* number of led_learning_over calls
    det_count,        \* detect calls since the last strum_trigger call
    sig_count         \* anomaly/nominal signals since that call

vars == <<mode, sensor, pc, loop, raw_values, last_raw_values, values,
          data_user, i, ref_sum, new_sum, ret, learn_cpt, similarity, out,
          last_accepted, drawn, drawn_sum, ref_n, new_n, fresh, captured,
          writes, line, lines, progress,
          learn_trigs, learn_calls, detect_called, over_count, det_count,
          sig_count>>

program == <<mode, sensor, loop>>
sampling == <<raw_values, last_raw_values, values, last_accepted>>
trigger == <<ref_sum, new_sum, ref_n, new_n>>
engine == <<learn_cpt, similarity, progress, learn_trigs, learn_calls,
            detect_called, over_count, det_count, sig_count>>
calls == <<drawn, drawn_sum>>
capture == <<captured, writes, line, lines>>

NoEvent == <<"none">>

ZeroTriple == <<FZero, FZero, FZero>>

(* -------------------------------- Init --------------------------------- *)

\* The state after init(), for a sensor drawn from the given sets.
InitFor(sensors) ==
    /\ mode \in {"DATA_LOGGING", "NEAI_LIB"}
    /\ sensor \in sensors
    /\ pc = "poll"
    /\ loop = IF mode = "DATA_LOGGING" THEN "logging" ELSE "learning"
    /\ raw_values = <<0, 0, 0>>
    /\ last_raw_values = <<0, 0, 0>>
    /\ values = ZeroTriple
    /\ data_user = [k \in BufferIndex |-> FZero]
    /\ i = 0
    /\ ref_sum = ZeroTriple
    /\ new_sum = ZeroTriple
    /\ ret = FALSE
    /\ learn_cpt = 0
    /\ similarity = 0
    /\ out = NoEvent
    /\ last_accepted = <<>>
    /\ drawn = 0
    /\ drawn_sum = <<0, 0, 0>>
    /\ ref_n = 0
    /\ new_n = 0
    /\ fresh = {}
    /\ captured = <<>>
    /\ writes = 0
    /\ line = <<>>
    /\ lines = 0
    /\ progress = <<>>
    /\ learn_trigs = 0
    /\ learn_calls = 0
    /\ detect_called = FALSE
    /\ over_count = 0
    /\ det_count = 0
    /\ sig_count = 0

Init == InitFor(SensorSets)

(* ----------------------------- get_values ------------------------------ *)

\* Mutant of Stale: the reading is taken as it comes, never read again.
StaleNeverChecked(last, raw) == FALSE

\* Mutant of Stale: a reading is read again only if stale on all three axes.
StaleOnAllAxes(last, raw) ==
    last[1] = raw[1] /\ last[2] = raw[2] /\ last[3] = raw[3]

\* Mutant of Stale: the comparison is inverted.
StaleInverted(last, raw) ==
    last[1] # raw[1] \/ last[2] # raw[2] \/ last[3] # raw[3]

\* Mutant of Stale: the x axis is left out of the comparison.
StaleSkipsX(last, raw) ==
    last[2] = raw[2] \/ last[3] = raw[3]

\* The do-while condition: the reading is read again while it equals the
\* last accepted reading on some axis.
Stale(last, raw) ==
    last[1] = raw[1] \/ last[2] = raw[2] \/ last[3] = raw[3]

\* (float) raw_values[i] / 1000
ToValue(raw) == <<raw, 1000>>

GetPcs == {"ref_get", "new_get", "fill_get"}

AfterGet(p) ==
    CASE p = "ref_get" -> "ref_acc"
      [] p = "new_get" -> "new_acc"
      [] p = "fill_get" -> "fill_store"

\* One iteration of the do-while loop whose reading is rejected.
GetValuesReject ==
    /\ pc \in GetPcs
    /\ \E r \in sensor :
          /\ Stale(last_raw_values, r)
          /\ raw_values' = r
    /\ out' = NoEvent
    /\ UNCHANGED <<capture, program, pc, last_raw_values, values, last_accepted,
                   data_user, i, trigger, ret, engine, calls, fresh>>

\* The last iteration of the do-while loop and the update loop after it.
GetValuesAccept ==
    /\ pc \in GetPcs
    /\ \E r \in sensor :
          /\ ~Stale(last_raw_values, r)
          /\ raw_values' = r
          /\ last_raw_values' = r
          /\ values' = [k \in Axes |-> ToValue(r[k])]
          /\ last_accepted' = r
          /\ drawn_sum' = [k \in Axes |-> drawn_sum[k] + r[k]]
          /\ captured' = IF pc = "fill_get" THEN Append(captured, r)
                         ELSE captured
    /\ pc' = AfterGet(pc)
    /\ drawn' = drawn + 1
    /\ out' = NoEvent
    /\ UNCHANGED <<writes, line, lines, program, data_user, i, trigger, ret, engine, fresh>>

(* ---------------------------- strum_trigger ---------------------------- *)

\* Entry of strum_trigger: the sums are initialised and the first for
\* loop starts (i = 0 < MINI).
StrumTriggerCall ==
    /\ pc = "poll"
    /\ ref_sum' = ZeroTriple
    /\ new_sum' = ZeroTriple
    /\ i' = 0
    /\ pc' = "ref_get"
    /\ drawn' = 0
    /\ drawn_sum' = <<0, 0, 0>>
    /\ ref_n' = 0
    /\ new_n' = 0
    /\ det_count' = 0
    /\ sig_count' = 0
    /\ out' = NoEvent
    /\ UNCHANGED <<capture, program, sampling, data_user, ret, learn_cpt, similarity,
                   progress, learn_trigs, learn_calls, detect_called, over_count,
                   fresh>>

\* sum += values, per axis
Accumulate(sum, v) == [k \in Axes |-> FAdd(sum[k], v[k])]

\* Mutant of Incr16: the loop counter is declared uint8_t.
Incr8(n) == (n + 1) % 256

\* i++ (uint16_t)
Incr16(n) == (n + 1) % UINT16

\* The test of the first for loop.
RefLoopContinues(n) == n < MINI

\* Mutant of NewLoopContinues: the second loop runs once too often.
NewLoopOffByOne(n) == n <= MINI

\* The test of the second for loop.
NewLoopContinues(n) == n < MINI

\* Body of the first for loop after get_values, and the loop test.
RefAccumulate ==
    /\ pc = "ref_acc"
    /\ ref_sum' = Accumulate(ref_sum, values)
    /\ ref_n' = ref_n + 1
    /\ i' = IF RefLoopContinues(Incr16(i)) THEN Incr16(i) ELSE 0
    /\ pc' = IF RefLoopContinues(Incr16(i)) THEN "ref_get"
             ELSE IF NewLoopContinues(0) THEN "new_get" ELSE "decide"
    /\ out' = NoEvent
    /\ UNCHANGED <<capture, program, sampling, data_user, new_sum, new_n, ret, engine,
                   calls, fresh>>

\* Body of the second for loop after get_values, and the loop test.
NewAccumulate ==
    /\ pc = "new_acc"
    /\ new_sum' = Accumulate(new_sum, values)
    /\ new_n' = new_n + 1
    /\ i' = Incr16(i)
    /\ pc' = IF NewLoopContinues(Incr16(i)) THEN "new_get" ELSE "decide"
    /\ out' = NoEvent
    /\ UNCHANGED <<capture, program, sampling, data_user, ref_sum, ref_n, ret, engine,
                   calls, fresh>>

\* abs(sum / MINI), per axis
WindowAvg(sum) == [k \in Axes |-> FAbs(FDivInt(sum[k], MINI))]

\* The condition of the outer if: the three candidate means, tested twice.
NoiseGate(ref_avg, new_avg) ==
    /\ FGt(new_avg[1], NOISE) /\ FGt(new_avg[2], NOISE) /\ FGt(new_avg[3], NOISE)
    /\ FGt(new_avg[1], NOISE) /\ FGt(new_avg[2], NOISE) /\ FGt(new_avg[3], NOISE)

\* Mutant of ThreshExceeded: every axis has to exceed, not just one.
ThreshExceededOnAllAxes(ref_avg, new_avg) ==
    /\ FGt(new_avg[1], FMul(ref_avg[1], THRESH))
    /\ FGt(new_avg[2], FMul(ref_avg[2], THRESH))
    /\ FGt(new_avg[3], FMul(ref_avg[3], THRESH))

\* The condition of the inner if.
ThreshExceeded(ref_avg, new_avg) ==
    \/ FGt(new_avg[1], FMul(ref_avg[1], THRESH))
    \/ FGt(new_avg[2], FMul(ref_avg[2], THRESH))
    \/ FGt(new_avg[3], FMul(ref_avg[3], THRESH))

\* The value strum_trigger returns for the two window sums.
TriggerResult(rsum, nsum) ==
    IF NoiseGate(WindowAvg(rsum), WindowAvg(nsum))
    THEN IF ThreshExceeded(WindowAvg(rsum), WindowAvg(nsum)) THEN TRUE ELSE FALSE
    ELSE FALSE

\* The averages, the two ifs and the return.
StrumTriggerReturn ==
    /\ pc = "decide"
    /\ ret' = TriggerResult(ref_sum, new_sum)
    /\ pc' = "trig_ret"
    /\ out' = NoEvent
    /\ UNCHANGED <<capture, program, sampling, data_user, i, trigger, engine, calls,
                   fresh>>

(* --------------------------- fill_acc_array ---------------------------- *)

\* Mutant of AfterFill: the classifying loop dispatches to learn as well.
AfterFillAlwaysLearn(m, l) ==
    IF m = "DATA_LOGGING" THEN "log_print" ELSE "learn"

\* Mutant of AfterFill: the learning loop dispatches to detect as well.
AfterFillAlwaysDetect(m, l) ==
    IF m = "DATA_LOGGING" THEN "log_print" ELSE "detect"

\* Where fill_acc_array goes after its first loop.
AfterFill(m, l) ==
    IF m = "DATA_LOGGING" THEN "log_print"
    ELSE IF l = "learning" THEN "learn" ELSE "detect"


\* Mutant of Store: the sample index is not scaled by AXIS_NUMBER.
StoreUnscaledIndex(buf, n, v) ==
    [k \in DOMAIN buf |->
        IF k = n THEN v[1]
        ELSE IF k = n + 1 THEN v[2]
        ELSE IF k = n + 2 THEN v[3]
        ELSE buf[k]]

\* data_user[AXIS_NUMBER * i + k] = values[k], k = 0..2
Store(buf, n, v) ==
    [k \in DOMAIN buf |->
        IF k = AXIS_NUMBER * n THEN v[1]
        ELSE IF k = AXIS_NUMBER * n + 1 THEN v[2]
        ELSE IF k = AXIS_NUMBER * n + 2 THEN v[3]
        ELSE buf[k]]

\* Mutant of FillContinues: the fill loop stops one sample short.
FillStopsShort(n) == n < DATA_INPUT_USER - 1

\* The test of the fill loop.
FillContinues(n) == n < DATA_INPUT_USER

\* Mutant of FillEntry: the first sample is stored before it is read.
FillEntryStoresFirst == "fill_store"

\* Entry of fill_acc_array: the fill loop starts with i = 0.
FillEntry == IF FillContinues(0) THEN "fill_get" ELSE AfterFill(mode, loop)

\* Body of the fill loop after get_values, and the loop test.
FillStore ==
    /\ pc = "fill_store"
    /\ data_user' = Store(data_user, i, values)
    /\ fresh' = fresh \cup
                 {AXIS_NUMBER * i, AXIS_NUMBER * i + 1, AXIS_NUMBER * i + 2}
    /\ i' = IF FillContinues(Incr16(i)) THEN Incr16(i) ELSE 0
    /\ pc' = IF FillContinues(Incr16(i)) THEN "fill_get"
             ELSE AfterFill(mode, loop)
    /\ writes' = writes + AXIS_NUMBER
    /\ out' = NoEvent
    /\ UNCHANGED <<captured, line, lines, program, sampling, trigger, ret,
                   engine, calls>>

\* printf("%.3f ", x): x rounded to thousandths, given in thousandths.
Format3(x) == (2 * 1000 * x[1] + x[2]) \div (2 * x[2])

\* Mutant of LogContinues: the printing loop counts samples, not scalars.
LogStopsAtSamples(n) == n < DATA_INPUT_USER

\* The test of the printing loop.
LogContinues(n) == n < DATA_INPUT_USER * AXIS_NUMBER

\* One iteration of the printing loop (DATA_LOGGING only).
LogPrintValue ==
    /\ pc = "log_print"
    /\ LogContinues(i)
    /\ out' = <<"printf", Format3(data_user[i])>>
    /\ line' = Append(line, Format3(data_user[i]))
    /\ i' = Incr16(i)
    /\ UNCHANGED <<captured, writes, lines, program, pc, sampling, data_user, trigger, ret, engine,
                   calls, fresh>>

\* End of the printing loop and printf("\n"); fill_acc_array returns.
LogPrintNewline ==
    /\ pc = "log_print"
    /\ ~LogContinues(i)
    /\ out' = <<"printf", "\n">>
    /\ lines' = lines + 1
    /\ pc' = "poll"
    /\ UNCHANGED <<captured, writes, line, program, sampling, data_user, i, trigger, ret, engine,
                   calls, fresh>>

(* -------------------------- data_logging_mode -------------------------- *)

\* if (strum_trigger()) fill_acc_array();
DataLoggingIf ==
    /\ pc = "trig_ret"
    /\ loop = "logging"
    /\ IF ret
       THEN /\ pc' = FillEntry
            /\ i' = 0
            /\ drawn' = 0
            /\ drawn_sum' = <<0, 0, 0>>
            /\ fresh' = {}
            /\ captured' = <<>>
            /\ writes' = 0
            /\ line' = <<>>
            /\ lines' = 0
       ELSE /\ pc' = "poll"
            /\ UNCHANGED <<i, drawn, drawn_sum, fresh, capture>>
    /\ out' = NoEvent
    /\ UNCHANGED <<program, sampling, data_user, trigger, ret, engine>>

(* ------------------------ neai_library_test_mode ----------------------- *)

\* if (strum_trigger()) { fill_acc_array(); ... } of the do-while loop.
LearnIf ==
    /\ pc = "trig_ret"
    /\ loop = "learning"
    /\ IF ret
       THEN /\ pc' = FillEntry
            /\ i' = 0
            /\ drawn' = 0
            /\ drawn_sum' = <<0, 0, 0>>
            /\ fresh' = {}
            /\ captured' = <<>>
            /\ writes' = 0
            /\ line' = <<>>
            /\ lines' = 0
       ELSE /\ pc' = "learn_test"
            /\ UNCHANGED <<i, drawn, drawn_sum, fresh, capture>>
    /\ learn_trigs' = IF ret /\ learn_trigs <= LEARNING_NUMBER
                    THEN learn_trigs + 1 ELSE learn_trigs
    /\ out' = NoEvent
    /\ UNCHANGED <<program, sampling, data_user, trigger, ret, learn_cpt,
                   similarity, progress, learn_calls, detect_called,
                   over_count, det_count, sig_count>>

\* NanoEdgeAI_learn(data_user);
Learn ==
    /\ pc = "learn"
    /\ out' = <<"learn", data_user>>
    /\ learn_calls' = learn_calls + 1
    /\ pc' = "led_learned"
    /\ UNCHANGED <<capture, program, sampling, data_user, i, trigger, ret, learn_cpt,
                   similarity, progress, learn_trigs, detect_called,
                   over_count, det_count, sig_count, calls, fresh>>

\* led_learned();
LedLearned ==
    /\ pc = "led_learned"
    /\ out' = <<"led_learned">>
    /\ pc' = "print_progress"
    /\ UNCHANGED <<capture, program, sampling, data_user, i, trigger, ret, engine,
                   calls, fresh>>

\* Mutant of ProgressValue: the percentage of the counter after its increment.
ProgressAfterIncrement(cpt) == ((cpt + 1) * 100) \div LEARNING_NUMBER

\* (int)(learn_cpt * 100) / LEARNING_NUMBER
ProgressValue(cpt) == (cpt * 100) \div LEARNING_NUMBER

\* pc.printf("%d\n", (int)(learn_cpt * 100) / LEARNING_NUMBER);
PrintProgress ==
    /\ pc = "print_progress"
    /\ out' = <<"printf", ProgressValue(learn_cpt)>>
    /\ progress' = Append(progress, ProgressValue(learn_cpt))
    /\ pc' = "learn_inc"
    /\ UNCHANGED <<capture, program, sampling, data_user, i, trigger, ret, learn_cpt,
                   similarity, learn_trigs, learn_calls, detect_called, over_count,
                   det_count, sig_count, calls, fresh>>

\* Mutant of LearnCptIncr: the counter is incremented twice.
LearnCptIncrTwice(cpt) == (cpt + 2) % UINT16

\* learn_cpt++ (uint16_t)
LearnCptIncr(cpt) == (cpt + 1) % UINT16

\* learn_cpt++;
LearnInc ==
    /\ pc = "learn_inc"
    /\ learn_cpt' = LearnCptIncr(learn_cpt)
    /\ pc' = "learn_test"
    /\ out' = NoEvent
    /\ UNCHANGED <<capture, program, sampling, data_user, i, trigger, ret, similarity,
                   progress, learn_trigs, learn_calls, detect_called, over_count, det_count,
                   sig_count, calls, fresh>>

\* Mutant of LearnContinues: the loop runs for one more learning.
LearnContinuesInclusive(cpt) == cpt <= LEARNING_NUMBER

\* The condition of the do-while loop.
LearnContinues(cpt) == cpt < LEARNING_NUMBER

\* while (learn_cpt < LEARNING_NUMBER);
LearnWhile ==
    /\ pc = "learn_test"
    /\ pc' = IF LearnContinues(learn_cpt) THEN "poll" ELSE "led_over"
    /\ out' = NoEvent
    /\ UNCHANGED <<capture, program, sampling, data_user, i, trigger, ret, engine,
                   calls, fresh>>

\* led_learning_over(); the while(1) loop is entered.
LedLearningOver ==
    /\ pc = "led_over"
    /\ out' = <<"led_learning_over">>
    /\ over_count' = over_count + 1
    /\ loop' = "classifying"
    /\ pc' = "poll"
    /\ UNCHANGED <<capture, mode, sensor, sampling, data_user, i, trigger, ret,
                   learn_cpt, similarity, progress, learn_trigs, learn_calls, detect_called,
                   det_count, sig_count, calls, fresh>>

\* if (strum_trigger()) { fill_acc_array(); ... } of the while(1) loop.
ClassifyIf ==
    /\ pc = "trig_ret"
    /\ loop = "classifying"
    /\ IF ret
       THEN /\ pc' = FillEntry
            /\ i' = 0
            /\ drawn' = 0
            /\ drawn_sum' = <<0, 0, 0>>
            /\ fresh' = {}
            /\ captured' = <<>>
            /\ writes' = 0
            /\ line' = <<>>
            /\ lines' = 0
       ELSE /\ pc' = "poll"
            /\ UNCHANGED <<i, drawn, drawn_sum, fresh, capture>>
    /\ out' = NoEvent
    /\ UNCHANGED <<program, sampling, data_user, trigger, ret, engine>>

\* similarity = NanoEdgeAI_detect(data_user);
Detect ==
    /\ pc = "detect"
    /\ similarity' \in SimilarityScores
    /\ out' = <<"detect", data_user>>
    /\ detect_called' = TRUE
    /\ det_count' = det_count + 1
    /\ pc' = "print_sim"
    /\ UNCHANGED <<capture, program, sampling, data_user, i, trigger, ret, learn_cpt,
                   progress, learn_trigs, learn_calls, over_count, sig_count, calls, fresh>>

\* pc.printf("%d\n", similarity);
PrintSimilarity ==
    /\ pc = "print_sim"
    /\ out' = <<"printf", similarity>>
    /\ pc' = "sim_test"
    /\ UNCHANGED <<capture, program, sampling, data_user, i, trigger, ret, engine,
                   calls, fresh>>

\* Mutant of SimilaritySignal: a score equal to the threshold is an anomaly.
SimilaritySignalInclusive(s) ==
    IF s <= THRESH_SIMILARITY THEN <<"led_anomaly">> ELSE <<"led_nominal">>

\* The LED chosen for a similarity score.
SimilaritySignal(s) ==
    IF s < THRESH_SIMILARITY THEN <<"led_anomaly">> ELSE <<"led_nominal">>

\* if (similarity < THRESH_SIMILARITY) led_anomaly(); else led_nominal();
SimilarityIf ==
    /\ pc = "sim_test"
    /\ out' = SimilaritySignal(similarity)
    /\ sig_count' = sig_count + 1
    /\ pc' = "poll"
    /\ UNCHANGED <<capture, program, sampling, data_user, i, trigger, ret, learn_cpt,
                   similarity, progress, learn_trigs, learn_calls, detect_called,
                   over_count, det_count, calls, fresh>>

(* ---------------------------- specification ---------------------------- *)

Next ==
    \/ StrumTriggerCall
    \/ GetValuesReject
    \/ GetValuesAccept
    \/ RefAccumulate
    \/ NewAccumulate
    \/ StrumTriggerReturn
    \/ FillStore
    \/ LogPrintValue
    \/ LogPrintNewline
    \/ DataLoggingIf
    \/ LearnIf
    \/ Learn
    \/ LedLearned
    \/ PrintProgress
    \/ LearnInc
    \/ LearnWhile
    \/ LedLearningOver
    \/ ClassifyIf
    \/ Detect
    \/ PrintSimilarity
    \/ SimilarityIf

Spec == Init /\ [][Next]_vars

\* The processor keeps executing the poll loop: some step is always taken.
\* The readings the sensor delivers stay unconstrained.
LiveInit == InitFor(LiveSensorSets)

LiveSpec == LiveInit /\ [][Next]_vars /\ WF_vars(Next)

(* ------------------- the program at its real capture length ------------ *)

\* #define DATA_INPUT_USER 1024: the capture length of the DATA_LOGGING
\* build.  The specification below runs that build (data_logging_mode) with
\* the loops of fill_acc_array at this length.  It follows the counters and
\* the slots that are written; the values stored in data_user and printed
\* from it are followed by Spec at the scaled length and are left out here:
\* data_user and line stay as they are, captured is emptied by each store.
FULL_DATA_INPUT_USER == 1024

FullBufferIndex == 0..(AXIS_NUMBER * FULL_DATA_INPUT_USER - 1)

FullSensorSets == { {<<50, -50, 50>>, <<600, -600, 600>>} }

FullInit == InitFor(FullSensorSets) /\ mode = "DATA_LOGGING"

\* The test of the fill loop, i < 1024.
FullFillContinues(n) == n < FULL_DATA_INPUT_USER

\* The slots of data_user[AXIS_NUMBER * i + k] = values[k], k = 0..2.
SlotsOf(n) == {AXIS_NUMBER * n, AXIS_NUMBER * n + 1, AXIS_NUMBER * n + 2}

\* The slots written so far, s, together with those of sample n: the set
\* s \cup SlotsOf(n), kept as an interval while the slots are contiguous.
SlotsWritten(s, n) ==
    IF s = 0..(AXIS_NUMBER * n - 1)
    THEN 0..(AXIS_NUMBER * n + 2)
    ELSE s \cup SlotsOf(n)

\* Body of the fill loop after get_values, and the loop test.
FullFillStore ==
    /\ pc = "fill_store"
    /\ fresh' = SlotsWritten(fresh, i)
    /\ writes' = writes + AXIS_NUMBER
    /\ captured' = <<>>
    /\ i' = IF FullFillContinues(Incr16(i)) THEN Incr16(i) ELSE 0
    /\ pc' = IF FullFillContinues(Incr16(i)) THEN "fill_get"
             ELSE AfterFill(mode, loop)
    /\ out' = NoEvent
    /\ UNCHANGED <<data_user, line, lines, program, sampling, trigger, ret,
                   engine, calls>>

\* The test of the printing loop, i < 1024 * 3.
FullLogContinues(n) == n < FULL_DATA_INPUT_USER * AXIS_NUMBER

\* One iteration of the printing loop.
FullLogPrintValue ==
    /\ pc = "log_print"
    /\ FullLogContinues(i)
    /\ out' = <<"printf", i>>
    /\ i' = Incr16(i)
    /\ UNCHANGED <<capture, program, pc, sampling, data_user, trigger, ret,
                   engine, calls, fresh>>

\* End of the printing loop and printf("\n"); fill_acc_array returns.
FullLogPrintNewline ==
    /\ pc = "log_print"
    /\ ~FullLogContinues(i)
    /\ out' = <<"printf", "\n">>
    /\ lines' = lines + 1
    /\ pc' = "poll"
    /\ UNCHANGED <<captured, writes, line, program, sampling, data_user, i,
                   trigger, ret, engine, calls, fresh>>

FullNext ==
    \/ StrumTriggerCall
    \/ GetValuesReject
    \/ GetValuesAccept
    \/ RefAccumulate
    \/ NewAccumulate
    \/ StrumTriggerReturn
    \/ DataLoggingIf
    \/ FullFillStore
    \/ FullLogPrintValue
    \/ FullLogPrintNewline

FullSpec == FullInit /\ [][FullNext]_vars

(* ------------------------------ properties ----------------------------- *)

\* The six window means of the strum_trigger call that has just returned.
RefMean(k) == FAbs(FDivInt(ref_sum[k], MINI))
NewMean(k) == FAbs(FDivInt(new_sum[k], MINI))

AtOrBelowNoise(m) == ~FGt(m, NOISE)

SomeMeanAtOrBelowNoise ==
    \E k \in Axes : AtOrBelowNoise(RefMean(k)) \/ AtOrBelowNoise(NewMean(k))

\* candidate mean > reference mean * 1.4, in integers: 10 * new > 14 * ref
AxisExceeds(k) ==
    10 * NewMean(k)[1] * RefMean(k)[2] > 14 * RefMean(k)[1] * NewMean(k)[2]

TriggerPcs == {"ref_get", "ref_acc", "new_get", "new_acc", "decide", "trig_ret"}

\* C1: no two consecutively accepted readings of get_values are identical
\* on all three axes, whichever callers drew them: every step that accepts
\* a reading accepts one that differs from the reading accepted before it.
C1_NoDuplicateAccepted ==
    [][drawn' = drawn + 1 => last_accepted' # last_accepted]_vars

\* C1 witness: the first reading of a capture has been accepted, right
\* after the ten readings of the trigger check that fired.
C1_Witness ==
    /\ pc = "fill_store"
    /\ drawn = 1
    /\ ret
    /\ last_accepted = raw_values

\* C2 (as claimed): strum_trigger returns false whenever one of the six
\* window means is at or below the noise floor.
C2_NoiseGateSixMeans ==
    pc = "trig_ret" /\ SomeMeanAtOrBelowNoise => ret = FALSE

\* C3: when the six means are all above the noise floor, strum_trigger
\* returns true exactly when some axis has candidate mean > reference
\* mean * 1.4 (equality gives false).
C3_ThresholdIff ==
    pc = "trig_ret" /\ ~SomeMeanAtOrBelowNoise
        => (ret <=> \E k \in Axes : AxisExceeds(k))

\* C3 witness: means above the noise floor, the x axis alone exceeds its
\* reference, and the trigger fired.
C3_Witness ==
    /\ pc = "trig_ret"
    /\ ~SomeMeanAtOrBelowNoise
    /\ AxisExceeds(1) /\ ~AxisExceeds(2) /\ ~AxisExceeds(3)
    /\ ret

\* C4: whenever the buffer is about to be or is being dispatched to a sink
\* (log output, learn, detect), every slot has been written since the
\* trigger that caused the capture, and the sink is handed that buffer.
C4_DispatchAfterFullFill ==
    /\ pc \in {"log_print", "learn", "detect"} => fresh = BufferIndex
    /\ out[1] \in {"learn", "detect"} => fresh = BufferIndex /\ out[2] = data_user
    /\ mode = "DATA_LOGGING" /\ out[1] = "printf" => fresh = BufferIndex

\* C4 witness: detect has just been handed a completely rewritten buffer.
C4_Witness ==
    /\ out[1] = "detect"
    /\ fresh = BufferIndex
    /\ pc = "print_sim"

\* C5: in learn-then-classify mode the counter stays within
\* 0..LEARNING_NUMBER and no step decreases it.
C5_CounterBoundedMonotone ==
    /\ [](mode = "NEAI_LIB" => learn_cpt >= 0 /\ learn_cpt <= LEARNING_NUMBER)
    /\ [][mode = "NEAI_LIB" => learn_cpt' >= learn_cpt]_vars

\* C5 witness: the counter has reached the quota.
C5_Witness ==
    mode = "NEAI_LIB" /\ learn_cpt = LEARNING_NUMBER /\ loop = "classifying"

\* C6: while learning, the counter equals the number of true triggers
\* (one increment per true trigger, none for a false one); no trigger check
\* starts once the quota-th learning is dispatched; the learning-complete
\* signal fires once, with the counter, the true triggers and the learn
\* dispatches all equal to the quota.
C6_CounterCountsTrueTriggers ==
    /\ loop = "learning" /\ pc \in TriggerPcs \cup {"poll"}
          => /\ learn_cpt = learn_trigs
             /\ learn_calls = learn_trigs
             /\ learn_cpt < LEARNING_NUMBER
    /\ loop = "learning" /\ pc \in {"learn_test", "led_over"}
          => learn_cpt = learn_trigs
    /\ loop = "learning" => over_count = 0
    /\ loop = "classifying"
          => /\ over_count = 1
             /\ learn_trigs = LEARNING_NUMBER
             /\ learn_cpt = LEARNING_NUMBER
             /\ learn_calls = LEARNING_NUMBER
    /\ out = <<"led_learning_over">> => pc = "poll" /\ loop = "classifying"

\* C6 witness: a false trigger in the learning loop after two learnings.
C6_Witness ==
    /\ loop = "learning"
    /\ pc = "learn_test"
    /\ ~ret
    /\ learn_trigs = 2
    /\ learn_cpt = 2

\* C7: in the classifying loop a true trigger ends with one detect call
\* and one signal, anomaly for a score below 90 and nominal otherwise; a
\* false trigger ends with no detect call and no signal.
C7_OneSignalPerTrueTrigger ==
    loop = "classifying" /\ pc = "poll" /\ out # <<"led_learning_over">>
        => IF ret
           THEN /\ det_count = 1
                /\ sig_count = 1
                /\ out = IF similarity < 90 THEN <<"led_anomaly">>
                         ELSE <<"led_nominal">>
           ELSE /\ det_count = 0
                /\ sig_count = 0
                /\ out = NoEvent

\* C7 witness: a score of exactly 90 has been signalled.
C7_Witness ==
    /\ loop = "classifying"
    /\ pc = "poll"
    /\ ret
    /\ similarity = 90
    /\ out = <<"led_nominal">>

\* C8: the k-th true trigger of the learning loop prints
\* floor((k-1)*100/LEARNING_NUMBER): the printed values are a prefix of
\* 0, 20, 40, 60, 80, one per learn dispatch, and the learning-complete
\* signal comes after all five.
C8_ProgressSequence ==
    /\ Len(progress) <= LEARNING_NUMBER
    /\ \A k \in 1..Len(progress) :
          progress[k] = ((k - 1) * 100) \div LEARNING_NUMBER
    /\ pc \in TriggerPcs \cup {"poll"} => Len(progress) = learn_calls
    /\ over_count > 0 => progress = <<0, 20, 40, 60, 80>>

\* C8 witness: learning is complete and the five values have been printed.
C8_Witness ==
    /\ out = <<"led_learning_over">>
    /\ progress = <<0, 20, 40, 60, 80>>

\* C9: a strum_trigger call accepts 2*MINI readings, the first MINI added
\* to the reference sums and the next MINI to the candidate sums, starting
\* from zero sums, whatever it returns.
C9_TwoWindowsPerCall ==
    /\ pc \in {"decide", "trig_ret"}
          => /\ drawn = 2 * MINI
             /\ ref_n = MINI
             /\ new_n = MINI
             /\ \A k \in Axes :
                   /\ ref_sum[k][2] = 1000 /\ new_sum[k][2] = 1000
                   /\ ref_sum[k][1] + new_sum[k][1] = drawn_sum[k]
    /\ pc \in {"ref_get", "ref_acc"}
          => /\ new_n = 0
             /\ new_sum = ZeroTriple
             /\ drawn <= MINI
             /\ ref_n \in {drawn, drawn - 1}
    /\ pc \in {"new_get", "new_acc"}
          => /\ ref_n = MINI
             /\ drawn >= MINI
             /\ new_n \in {drawn - MINI, drawn - MINI - 1}
    /\ pc = "ref_get" /\ drawn = 0 => ref_sum = ZeroTriple

\* C9 witness: a second call has returned false after ten readings.
C9_Witness ==
    /\ pc = "trig_ret"
    /\ ~ret
    /\ drawn = 2 * MINI
    /\ learn_calls = 1

\* C10: classifying is terminal: after the learning-complete signal learn
\* is not called and the counter does not change; there are never more
\* than LEARNING_NUMBER learn calls, all of them made before learning is
\* complete, and detect is called in the classifying loop only.
C10_ClassifyingTerminal ==
    /\ [](learn_calls <= LEARNING_NUMBER)
    /\ [](loop = "classifying" <=> over_count > 0)
    /\ [](loop = "classifying" => learn_calls = LEARNING_NUMBER)
    /\ [](detect_called \/ out[1] = "detect" => loop = "classifying")
    /\ [](out[1] = "learn" => loop = "learning" /\ ~detect_called)
    /\ [][loop = "classifying"
            => /\ loop' = "classifying"
               /\ learn_calls' = learn_calls
               /\ learn_cpt' = learn_cpt
               /\ over_count' = over_count]_vars

\* C10 witness: detect has been called after the five learn calls.
C10_Witness ==
    /\ loop = "classifying"
    /\ detect_called
    /\ learn_calls = LEARNING_NUMBER
    /\ pc = "poll"

\* The buffer holds, sample by sample, the readings listed in captured.
BufferHoldsCaptured ==
    /\ Len(captured) = DATA_INPUT_USER
    /\ \A n \in 0..(DATA_INPUT_USER - 1) : \A k \in Axes :
          data_user[3 * n + k - 1] = <<captured[n + 1][k], 1000>>

\* C11: in logging mode a true trigger is followed, before the next
\* trigger check, by one complete fill and one log line holding the 3*M
\* buffer values in index order; a false trigger leads straight back to
\* the poll loop with no fill and no output.
C11_OneLinePerTrueTrigger ==
    /\ [](mode = "DATA_LOGGING" /\ pc = "poll" /\ ret
            => /\ lines = 1
               /\ writes = AXIS_NUMBER * DATA_INPUT_USER
               /\ fresh = BufferIndex
               /\ Len(captured) = DATA_INPUT_USER
               /\ Len(line) = AXIS_NUMBER * DATA_INPUT_USER
               /\ \A k \in 1..Len(line) :
                     line[k] * data_user[k - 1][2] = 1000 * data_user[k - 1][1]
               /\ out = <<"printf", "\n">>)
    /\ [](mode = "DATA_LOGGING" /\ pc \in TriggerPcs => lines <= 1)
    /\ [][mode = "DATA_LOGGING" /\ pc = "trig_ret" /\ ~ret
            => /\ pc' = "poll"
               /\ out' = NoEvent
               /\ data_user' = data_user
               /\ <<writes, line, lines>>' = <<writes, line, lines>>]_vars

\* C11 witness: the log line of a capture has just been ended.
C11_Witness ==
    /\ mode = "DATA_LOGGING"
    /\ pc = "poll"
    /\ ret
    /\ lines = 1
    /\ Len(line) = AXIS_NUMBER * DATA_INPUT_USER

\* C12: when the fill loop is over, sample i of the capture (its x, y, z
\* divided by 1000) is in slots 3i, 3i+1, 3i+2, in acceptance order, every
\* slot was written by this fill, and during the fill each accepted sample
\* is stored once before the next is read.
C12_BufferHoldsCapture ==
    /\ pc \in {"log_print", "learn", "detect"}
          => /\ BufferHoldsCaptured
             /\ fresh = BufferIndex
             /\ writes = AXIS_NUMBER * DATA_INPUT_USER
    /\ pc = "fill_get" => Len(captured) = i /\ writes = AXIS_NUMBER * i
    /\ pc = "fill_store" => Len(captured) = i + 1 /\ writes = AXIS_NUMBER * i

\* C12 witness: a second capture is complete and about to be learnt.
C12_Witness ==
    /\ pc = "learn"
    /\ learn_calls = 1
    /\ BufferHoldsCaptured
    /\ captured[1] # captured[2]

\* C13: a step of get_values that accepts a reading accepts one that
\* differs from last_raw_values on each axis, and leaves last_raw_values
\* equal to it and each value equal to raw / 1000; a step that rejects a
\* reading rejects one that equals last_raw_values on some axis, and
\* changes neither last_raw_values nor values.
C13_RejectOnAnyAxis ==
    [][ /\ drawn' = drawn + 1
             => /\ \A k \in Axes : raw_values'[k] # last_raw_values[k]
                /\ last_raw_values' = raw_values'
                /\ \A k \in Axes : values'[k] = <<raw_values'[k], 1000>>
        /\ pc \in GetPcs /\ pc' = pc
             => /\ \E k \in Axes : raw_values'[k] = last_raw_values[k]
                /\ last_raw_values' = last_raw_values
                /\ values' = values ]_vars

\* C13 witness: a reading equal to the last accepted one on some axes
\* only has been rejected.
C13_Witness ==
    /\ pc \in GetPcs
    /\ last_accepted # <<>>
    /\ \E k \in Axes : raw_values[k] = last_raw_values[k]
    /\ \E k \in Axes : raw_values[k] # last_raw_values[k]
    /\ values = [k \in Axes |-> <<last_raw_values[k], 1000>>]

\* C16: until a reading is accepted last_raw_values is (0, 0, 0) and every
\* reading delivered so far had a zero on some axis; the first reading
\* accepted is non-zero on all three axes.
C16_FirstReadingNonZero ==
    /\ [](last_accepted = <<>>
            => /\ last_raw_values = <<0, 0, 0>>
               /\ \E k \in Axes : raw_values[k] = 0)
    /\ [][last_accepted = <<>> /\ last_accepted' # <<>>
            => \A k \in Axes : last_accepted'[k] # 0]_vars

\* C16 witness: a first reading with a zero on one axis has been
\* discarded.
C16_Witness ==
    /\ last_accepted = <<>>
    /\ pc = "ref_get"
    /\ raw_values # <<0, 0, 0>>
    /\ \E k \in Axes : raw_values[k] = 0

\* C17: data_user changes in the store step of fill_acc_array only; no
\* reading is accepted between the return of strum_trigger and the fill,
\* the fill starts with an empty capture, and its first store holds the
\* first reading accepted after the trigger check.
C17_OnlyFillWritesBuffer ==
    /\ [][ /\ pc # "fill_store" => data_user' = data_user
           /\ pc = "trig_ret" => last_accepted' = last_accepted ]_vars
    /\ [](pc = "fill_get" /\ i = 0 => captured = <<>> /\ writes = 0 /\ drawn = 0)
    /\ [](pc = "fill_store" /\ i = 0
            => drawn = 1 /\ captured = <<last_accepted>> /\ writes = 0)

\* C17 witness: the first reading of a third capture is about to be
\* stored.
C17_Witness ==
    /\ pc = "fill_store"
    /\ i = 0
    /\ drawn = 1
    /\ learn_calls = 2

\* C14 (as claimed): when the learning-progress value is printed, the
\* counter has already been incremented for the trigger being handled, and
\* the value is that counter * 100 / LEARNING_NUMBER.
C14_ProgressAfterIncrement ==
    loop = "learning" /\ out[1] = "printf"
        => /\ learn_cpt = learn_calls
           /\ out[2] = (learn_cpt * 100) \div LEARNING_NUMBER

\* C14 (amended): a true trigger of the learning loop is handled in the
\* order fill, learn dispatch of the filled buffer, progress indicator
\* (led_learned, then the value counter * 100 / LEARNING_NUMBER of the
\* counter not yet incremented), counter increment.
C14_ProgressBeforeIncrement ==
    /\ pc = "learn"
          => /\ fresh = BufferIndex
             /\ learn_calls = learn_cpt
             /\ Len(progress) = learn_cpt
    /\ out[1] = "learn"
          => /\ out[2] = data_user
             /\ pc = "led_learned"
             /\ learn_calls = learn_cpt + 1
             /\ Len(progress) = learn_cpt
    /\ pc = "print_progress"
          => /\ out = <<"led_learned">>
             /\ learn_calls = learn_cpt + 1
             /\ Len(progress) = learn_cpt
    /\ loop = "learning" /\ out[1] = "printf"
          => /\ pc = "learn_inc"
             /\ out[2] = (learn_cpt * 100) \div LEARNING_NUMBER
             /\ learn_calls = learn_cpt + 1
             /\ Len(progress) = learn_cpt + 1
    /\ loop = "learning" /\ pc = "learn_test"
          => learn_cpt = learn_calls /\ Len(progress) = learn_cpt

\* C14 witness: the second learning has printed 20 and the counter is
\* still 1.
C14_Witness ==
    /\ loop = "learning"
    /\ pc = "learn_inc"
    /\ out = <<"printf", 20>>
    /\ learn_cpt = 1
    /\ learn_calls = 2

FillPcs == {"fill_get", "fill_store", "log_print"}

\* The sensor delivers a reading that is not the last accepted triple.
SensorNotIdentical ==
    pc \in GetPcs /\ raw_values' # last_raw_values

\* The sensor delivers a reading that differs from the last accepted
\* triple on every axis.
SensorFreshOnAllAxes ==
    pc \in GetPcs /\ \A k \in Axes : raw_values'[k] # last_raw_values[k]

\* C15 (as claimed): if the sensor keeps delivering readings that are not
\* identical to the last accepted triple, every get_values call returns.
C15_ReturnsOnNonIdentical ==
    []<><<SensorNotIdentical>>_vars => []<>(pc \notin GetPcs)

\* C15 (amended): if the sensor keeps delivering readings that differ from
\* the last accepted triple on all three axes, every get_values call
\* returns, and so does every strum_trigger and fill_acc_array call.
C15_ReturnsOnFreshAxes ==
    []<><<SensorFreshOnAllAxes>>_vars
        => /\ []<>(pc \notin GetPcs)
           /\ (pc \in TriggerPcs) ~> (pc = "trig_ret")
           /\ (pc \in FillPcs) ~> (pc \notin FillPcs)

\* C15 witness: in the middle of a fill, get_values has rejected a
\* reading that is stale on some axes only.
C15_Witness ==
    /\ pc = "fill_get"
    /\ i = 1
    /\ raw_values # last_raw_values
    /\ \E k \in Axes : raw_values[k] = last_raw_values[k]

\* C19: in learn-then-classify mode, if get_values always returns and
\* strum_trigger returns true again and again, learning-complete is
\* signalled, the program ends up in the classifying loop for good, and
\* every true trigger there leads to a detect dispatch.
C19_LearningEnds ==
    ([]<>(pc \notin GetPcs) /\ []<>(pc = "trig_ret" /\ ret))
        => (mode = "NEAI_LIB"
              => /\ <>(out = <<"led_learning_over">>)
                 /\ <>[](loop = "classifying" /\ over_count = 1)
                 /\ (loop = "classifying" /\ pc = "trig_ret" /\ ret)
                       ~> (out[1] = "detect"))

\* C19 witness: a true trigger in the classifying loop has been answered
\* with a detect dispatch.
C19_Witness ==
    /\ loop = "classifying"
    /\ over_count = 1
    /\ ret
    /\ out[1] = "detect"
    /\ out[2] = data_user

(* C18: the fill and printing loops at the real capture length.  During a
   fill every index written into data_user lies in 0..3*1024-1 and no slot
   is written twice (the number of writes equals the number of distinct
   slots written), and when the fill loop is left all 3*1024 slots have been
   written.  The 16-bit counters never wrap: inside the fill loop the
   counter is below 1024 and equals the number of iterations done so far,
   and inside the printing loop it is at most 3*1024.  Every iteration
   raises its counter by exactly one, and a loop is left only by the
   iteration that brings the counter to its bound: so the fill loop ends
   after exactly 1024 iterations and the printing loop after exactly
   3*1024. *)
C18_LoopState ==
    /\ fresh \subseteq FullBufferIndex
    /\ writes = Cardinality(fresh)
    /\ pc \in {"fill_get", "fill_store"}
          => /\ i < FULL_DATA_INPUT_USER
             /\ writes = AXIS_NUMBER * i
    /\ pc \notin {"fill_get", "fill_store"}
          => \/ writes = 0 /\ fresh = {}
             \/ /\ writes = AXIS_NUMBER * FULL_DATA_INPUT_USER
                /\ fresh = FullBufferIndex
    /\ pc = "log_print"
          => /\ fresh = FullBufferIndex
             /\ i <= AXIS_NUMBER * FULL_DATA_INPUT_USER
    /\ lines \in {0, 1}

C18_CounterAdvances ==
    /\ pc = "fill_store"
          => \/ pc' = "fill_get" /\ i' = i + 1 /\ i' < FULL_DATA_INPUT_USER
             \/ pc' = "log_print" /\ i + 1 = FULL_DATA_INPUT_USER /\ i' = 0
    /\ pc = "log_print"
          => \/ /\ pc' = "log_print"
                /\ i' = i + 1
                /\ i' <= AXIS_NUMBER * FULL_DATA_INPUT_USER
                /\ out' = <<"printf", i>>
             \/ /\ pc' = "poll"
                /\ i = AXIS_NUMBER * FULL_DATA_INPUT_USER
                /\ lines' = 1

C18_LoopsExact == []C18_LoopState /\ [][C18_CounterAdvances]_vars

C18_Witness ==
    /\ pc = "poll"
    /\ lines = 1
    /\ i = AXIS_NUMBER * FULL_DATA_INPUT_USER
    /\ fresh = FullBufferIndex
    /\ writes = AXIS_NUMBER * FULL_DATA_INPUT_USER

====
